---- MODULE Spec2Model ----
(***************************************************************************)
(* nlever-server: release activation, deployment lock, manual and          *)
(* automatic rollback, registry and port allocation.                       *)
(*                                                                         *)
(* Every request handler is an async function.  One action of this model   *)
(* is one turn of the event loop for one request: the completion of the    *)
(* awaited operation (whose effect on the disk is applied at that moment)  *)
(* followed by all the synchronous code up to the next await, execSync     *)
(* calls included.  The field pc of a request names the await it is        *)
(* suspended at.  The requests in flight form a bag: two requests with the *)
(* same locals at the same await are interchangeable.                      *)
(***************************************************************************)
EXTENDS Integers, FiniteSets, Sequences, Bags, TLC

\* ---------------------------------------------------------------- bounds
\* number of requests that arrive in one run
MaxReq == 2
\* number of deploy requests that arrive in one run of SpecHealthy
MaxDeploys == 3
\* number of requests that arrive in one run of SpecGate
MaxGateReq == 12
\* number of times the clock is advanced in one run of SpecGate
MaxTicks == 2
\* number of requests that arrive in one run of SpecOps
MaxOps == 3
\* length of the app names of malformed requests
MaxLen == 2
\* manual rollback requests in the specification of concurrent rollbacks
MaxRollbacks == 3
\* manual rollbacks issued while one deploy of the app is in flight
MaxDuring == 2

\* ------------------------------------------------------ program constants
BasePort == 3001
DefaultPort == 8080
maxAttempts == 10
\* checkRateLimit: now - entry.lastReset > 60000, entry.count >= 10
RateWindow == 60000
RateCap == 10

\* NLEVER_PROXY=yes: the configuration in which records carry a port.  With it
\* off assignedPort is null and no step of a handler depends on the port.
PROXY_MODE == TRUE

Apps == {"a", "b"}
\* release ids are Date.now() values; 1 and 2 name releases of earlier runs
FirstTs == 3
Kinds == {"deploy", "rollback", "destroy"}
PkgKinds == {"start", "main", "bare", "none"}

\* client addresses as getClientIP returns them; NLEVER_ADMIN_IPS lists two
IPs == {"x", "y", "z"}
ADMIN_IPS == {"x", "y"}
\* NLEVER_AUTH_TOKEN is set; a request carries it or does not
AUTH_TOKEN == "good"
Tokens == {"good", "bad"}

\* the actions handleApiRequest routes
Actions == {"deploy", "rollback", "stop", "restart", "destroy", "status", "logs"}
\* characters of an app name in the URL: a letter, a digit, '-', '_', and two
\* that /^[a-zA-Z0-9_-]+$/ does not match
Chars == {"a", "1", "-", "_", ".", "$"}

VARIABLES
    env,            \* what the outside world may do in this run: the outcomes
                    \* of tool calls and disk writes, the manifests of the
                    \* archives, the health_check parameters of the requests
    budget,         \* requests that may still arrive
    base,           \* base[a]: the directory BASE_DIR/a exists
    lock,           \* lock[a]: "none", or the age class of .nlever-deploying
    current,        \* current[a]: target of the symlink, 0 when absent
    previous,       \* previous[a]: target of the symlink, 0 when absent
    relDir,         \* relDir[a]: the directory a/releases exists
    releases,       \* releases[a]: directories present under a/releases
    extracted,      \* extracted[a]: releases whose tar run ended with code 0
    proc,           \* proc[a]: the pm2 entry nlever-a
    apps,           \* the in-memory registry
    registryFile,   \* content of .nlever-apps.json
    clock,          \* clock[a]: Date.now() of the next deploy of a
    reqs,           \* bag of the requests in flight: their locals and position
    chain,          \* chain[a]: consecutive undisturbed successful rollbacks
    last,           \* the response sent by the step that led here, if any
    rateLimitMap,   \* IP -> {count, lastReset}
    now,            \* Date.now()
    peer,           \* address and token of the request handled last
    win,            \* win[ip]: start of the current 60 s window of ip and the
                    \* number of its requests that reached the rate limiter in it
    passLog         \* passLog[ip]: times, less than 60 s ago, at which a
                    \* request of ip passed the rate limiter

vars == <<env, budget, base, lock, current, previous, relDir, releases,
          extracted, proc, apps, registryFile, clock, reqs, chain, last,
          rateLimitMap, now, peer, win, passLog>>

gateVars == <<rateLimitMap, now, peer, win, passLog>>

fsVars == <<base, lock, current, previous, relDir, releases, extracted>>

\* outcomes of a call to an external tool or a disk write in this run
Oks == env.oks

\* ------------------------------------------------------------ registry
NoRec == [present |-> FALSE, lastDeploy |-> 0, healthCheck |-> FALSE, port |-> 0]

AppRecord(ts, hc, port) ==
    [present |-> TRUE, lastDeploy |-> ts, healthCheck |-> hc, port |-> port]

usedPorts(reg) == {reg[x].port : x \in {y \in Apps : reg[y].present}} \ {0}

RECURSIVE NextFree(_, _)
NextFree(used, port) == IF port \in used THEN NextFree(used, port + 1) ELSE port

\* mutant: the next port is counted up from the number of ports in use, so a
\* port freed by a destroy below the highest one is not found
getAppPort_counted(reg, a) ==
    IF ~PROXY_MODE THEN DefaultPort
    ELSE IF reg[a].present /\ reg[a].port # 0 THEN reg[a].port
    ELSE BasePort + Cardinality(usedPorts(reg))

getAppPort(reg, a) ==
    IF ~PROXY_MODE THEN DefaultPort
    ELSE IF reg[a].present /\ reg[a].port # 0 THEN reg[a].port
    ELSE NextFree(usedPorts(reg), BasePort)

\* const assignedPort = PROXY_MODE ? getAppPort(safeAppName) : null;
assignedPort(reg, a) == IF PROXY_MODE THEN getAppPort(reg, a) ELSE 0

\* ------------------------------------------------------------- requests
NoProc == [exists |-> FALSE, script |-> "none", restarts |-> 0]

\* what a request found on arrival; kept while no other request for the same
\* app overlaps it
NoPre == [cur |-> 0, prev |-> 0, rel |-> {}, proc |-> NoProc, rec |-> NoRec]

NewReq ==
    [pc |-> "idle", kind |-> "none", app |-> "none", hc |-> FALSE, ts |-> 0,
     port |-> 0, rollbackNeeded |-> FALSE, previousLink |-> FALSE,
     curT |-> 0, prevT |-> 0, todo |-> {}, attempt |-> 0, script |-> "none",
     snap |-> [x \in Apps |-> NoRec], status |-> 0, msg |-> "none",
     solo |-> TRUE, pre |-> NoPre, activated |-> FALSE, installed |-> FALSE]

\* what getPM2ProcessInfo returns when `pm2 jlist` has no such process
StoppedInfo ==
    [status |-> "stopped", cpu |-> 0, memory |-> 0, uptime |-> "now", restarts |-> 0]

NoResp ==
    [kind |-> "none", app |-> "none", status |-> 0, msg |-> "none",
     solo |-> FALSE, pre |-> NoPre, ts |-> 0, pm2 |-> StoppedInfo]

InFlight == BagToSet(reqs)

Others(a) == {q \in InFlight : q.app = a}

NoChain == [armed |-> FALSE, n |-> 0, cur |-> 0, prev |-> 0]

\* the request gate: an address without entry, no request yet, no window yet
NoEntry == [present |-> FALSE, count |-> 0, lastReset |-> 0]
NoPeer == [ip |-> "none", token |-> "none"]
NoWin == [start |-> 0, n |-> 0]

\* the bag B with one copy of q replaced by q2
Put(B, q2) == B (+) SetToBag({q2})
Take(B, q) == B (-) SetToBag({q})

\* every request for app a in B has now been overlapped by another one
RECURSIVE Overlapped(_, _)
Overlapped(B, a) ==
    IF \A q \in BagToSet(B) : q.app = a => ~q.solo THEN B
    ELSE LET q == CHOOSE x \in BagToSet(B) : x.app = a /\ x.solo
             n == CopiesIn(q, B)
             rest == [x \in BagToSet(B) \ {q} |-> B[x]]
             q2 == [q EXCEPT !.solo = FALSE, !.pre = NoPre]
         IN  Overlapped(rest (+) [x \in {q2} |-> n], a)

\* -------------------------------------------------------------- Init
\* The server starts (init/loadRegistry) on a base directory that is empty
\* or was left by earlier runs: an app is either unknown or was deployed
\* twice (releases 1 then 2, release 1 removed by the cleanup of the second).
InitPort(D, a) ==
    IF ~PROXY_MODE THEN 0
    ELSE IF a = "b" /\ "a" \in D THEN BasePort + 1
    ELSE BasePort

InitRegistry(D) ==
    [a \in Apps |-> IF a \in D THEN AppRecord(2, FALSE, InitPort(D, a)) ELSE NoRec]

InitDisk(D) ==
    /\ base = [a \in Apps |-> a \in D]
    /\ relDir = [a \in Apps |-> a \in D]
    /\ current = [a \in Apps |-> IF a \in D THEN 2 ELSE 0]
    /\ previous = [a \in Apps |-> IF a \in D THEN 1 ELSE 0]
    /\ releases = [a \in Apps |-> IF a \in D THEN {2} ELSE {}]
    /\ extracted = [a \in Apps |-> IF a \in D THEN {2} ELSE {}]
    /\ proc = [a \in Apps |-> IF a \in D
                              THEN [exists |-> TRUE, script |-> "index.js", restarts |-> 0]
                              ELSE NoProc]
    /\ apps = InitRegistry(D)
    /\ registryFile = InitRegistry(D)
    /\ lock = [a \in Apps |-> "none"]
    /\ clock = [a \in Apps |-> FirstTs]
    /\ reqs = EmptyBag
    /\ chain = [a \in Apps |-> NoChain]
    /\ last = NoResp
    /\ rateLimitMap = [ip \in IPs |-> NoEntry]
    /\ now = 0
    /\ peer = NoPeer
    /\ win = [ip \in IPs |-> NoWin]
    /\ passLog = [ip \in IPs |-> EmptyBag]

Init ==
    /\ env = [oks |-> BOOLEAN, manifests |-> PkgKinds, healthChecks |-> BOOLEAN]
    /\ budget = MaxReq
    /\ \E D \in {{}, {"a"}, Apps} : InitDisk(D)

\* ------------------------------------------------------------ helpers
Set(q, q2) == reqs' = Put(Take(reqs, q), q2)

Response(q, status, msg) ==
    [kind |-> q.kind, app |-> q.app, status |-> status, msg |-> msg,
     solo |-> q.solo, pre |-> q.pre, ts |-> q.ts, pm2 |-> StoppedInfo]

\* sendError / res.writeHead+res.end as the last statement of a handler
Finish(q, status, msg) ==
    /\ reqs' = Take(reqs, q)
    /\ last' = Response(q, status, msg)

\* the locals the catch and finally blocks of deploy can still read
Locals(q) ==
    [q EXCEPT !.curT = 0, !.prevT = 0, !.todo = {}, !.attempt = 0,
              !.script = "none", !.snap = NewReq.snap, !.installed = FALSE]

\* mutant: the catch block restores 'previous' after every failure, whether or
\* not rollbackNeeded was set
Catch_alwaysRollback(q, q2, msg) ==
    IF q2.previousLink
    THEN /\ Set(q, [Locals(q2) EXCEPT !.pc = "rbReadlink", !.msg = msg])
         /\ last' = NoResp
    ELSE /\ Set(q, [Locals(q2) EXCEPT !.pc = "releaseLock", !.status = 500, !.msg = msg])
         /\ last' = Response(q2, 500, msg)

\* deploy: catch (error) { ... } up to its first await
Catch(q, q2, msg) ==
    IF q2.rollbackNeeded /\ q2.previousLink
    THEN /\ Set(q, [Locals(q2) EXCEPT !.pc = "rbReadlink", !.msg = msg])
         /\ last' = NoResp
    ELSE /\ Set(q, [Locals(q2) EXCEPT !.pc = "releaseLock", !.status = 500, !.msg = msg])
         /\ last' = Response(q2, 500, msg)

\* deploy: sendError(res, 500, error.message) at the end of the catch block
CatchEnd(q) ==
    /\ Set(q, [q EXCEPT !.pc = "releaseLock", !.status = 500, !.prevT = 0])
    /\ last' = Response(q, 500, q.msg)

\* pm2 restart nlever-<app> --update-env
pm2Restart(p) == [p EXCEPT !.restarts = @ + 1]

\* ------------------------------------------------- the request gate
\* allowedIPs.includes(ip), with NLEVER_ADMIN_IPS set to a list
checkIPWhitelist(ip) == ip \in ADMIN_IPS

\* header && header === `Bearer ${AUTH_TOKEN}`
checkAuth(token) == token = AUTH_TOKEN

\* !entry || now - entry.lastReset > 60000
windowOver(e, t) == ~e.present \/ t - e.lastReset > RateWindow

\* mutant: the cap is compared with <= and lets an 11th request through
checkRateLimit_offByOne(m, ip, t) ==
    windowOver(m[ip], t) \/ m[ip].count <= RateCap

\* the value checkRateLimit(ip) returns at time t
checkRateLimit(m, ip, t) == windowOver(m[ip], t) \/ m[ip].count < RateCap

\* the table checkRateLimit(ip) leaves at time t
rateLimitSet(m, ip, t) ==
    IF windowOver(m[ip], t)
    THEN [m EXCEPT ![ip] = [present |-> TRUE, count |-> 1, lastReset |-> t]]
    ELSE IF m[ip].count >= RateCap THEN m
    ELSE [m EXCEPT ![ip].count = @ + 1]

\* mutant: the token is checked before the rate limit
gateStatus_authFirst(m, ip, token, t) ==
    IF ~checkIPWhitelist(ip) THEN 403
    ELSE IF ~checkAuth(token) THEN 401
    ELSE IF ~checkRateLimit(m, ip, t) THEN 429
    ELSE 0

\* handleApiRequest: the status of the first failing check, 0 when all pass
gateStatus(m, ip, token, t) ==
    IF ~checkIPWhitelist(ip) THEN 403
    ELSE IF ~checkRateLimit(m, ip, t) THEN 429
    ELSE IF ~checkAuth(token) THEN 401
    ELSE 0

\* handleApiRequest: the rate-limiter table after the checks
gateMap(m, ip, t) == IF checkIPWhitelist(ip) THEN rateLimitSet(m, ip, t) ELSE m

\* the window of a request that reaches the rate limiter at time t: it starts
\* with the first request after the previous window expired
winNext(w, t) ==
    IF w.n = 0 \/ t - w.start > RateWindow THEN [start |-> t, n |-> 1]
    ELSE [w EXCEPT !.n = @ + 1]

\* the times in bag B less than 60 s before t
Recent(B, t) ==
    LET keep == {u \in BagToSet(B) : t - u < RateWindow}
    IN  [u \in keep |-> B[u]]

\* the checks of handleApiRequest for a request of address ip with token
Gate(ip, token) ==
    LET s == gateStatus(rateLimitMap, ip, token, now) IN
    /\ rateLimitMap' = gateMap(rateLimitMap, ip, now)
    /\ peer' = [ip |-> ip, token |-> token]
    /\ win' = IF checkIPWhitelist(ip) THEN [win EXCEPT ![ip] = winNext(@, now)]
              ELSE win
    /\ passLog' = IF s \in {0, 401}
                  THEN [passLog EXCEPT ![ip] = Recent(@, now) (+) SetToBag({now})]
                  ELSE passLog
    /\ now' = now

\* a request without an app name (GET /): the checks, then 400 'Invalid request'
GateRequest(ip, token) ==
    LET s == gateStatus(rateLimitMap, ip, token, now) IN
    /\ budget > 0
    /\ budget' = budget - 1
    /\ Gate(ip, token)
    /\ last' = [NoResp EXCEPT !.kind = "request", !.status = IF s = 0 THEN 400 ELSE s]
    /\ UNCHANGED <<env, fsVars, proc, apps, registryFile, clock, reqs, chain>>

\* the clock was advanced by 1 ms (t % RateWindow) times and by 60 s
\* (t \div RateWindow) times
Ticks(t) == (t % RateWindow) + (t \div RateWindow)

\* time passes
Tick(d) ==
    /\ Ticks(now) < MaxTicks
    /\ now' = now + d
    /\ passLog' = [ip \in IPs |-> Recent(passLog[ip], now + d)]
    /\ last' = NoResp
    /\ UNCHANGED <<env, budget, fsVars, proc, apps, registryFile, clock, reqs,
                   chain, rateLimitMap, peer, win>>

\* ------------------------------------------- handlers without an await
\* /^[a-zA-Z0-9_-]+$/.test(appName)
wellFormed(name) ==
    /\ Len(name) >= 1
    /\ \A i \in 1..Len(name) : name[i] \in {"a", "1", "-", "_"}

\* app names of at most MaxLen characters
Names == UNION {[1..n -> Chars] : n \in 1..MaxLen}

\* the response to a request whose app name sanitizeAppName rejects: deploy
\* and rollback call it outside their try block, so handleApiRequest answers
\* 500 with the error's message; destroyApp catches it in its outer try; the
\* other handlers answer from their own catch block
nameErrorStatus(k) ==
    IF k \in {"deploy", "rollback", "destroy"} THEN 500 ELSE 404

nameErrorMessage(k) ==
    CASE k \in {"deploy", "rollback"} -> "Invalid app name format"
      [] k = "destroy" -> "Failed to destroy app"
      [] k = "stop" -> "App not found or failed to stop"
      [] k = "restart" -> "App not found or failed to restart"
      [] OTHER -> "App not found"

\* a request for action k whose app name is malformed
Malformed(k, name) ==
    /\ budget > 0
    /\ budget' = budget - 1
    /\ ~wellFormed(name)
    /\ gateStatus(rateLimitMap, "x", AUTH_TOKEN, now) = 0
    /\ Gate("x", AUTH_TOKEN)
    /\ last' = [NoResp EXCEPT !.kind = k, !.status = nameErrorStatus(k),
                              !.msg = nameErrorMessage(k)]
    /\ UNCHANGED <<env, fsVars, proc, apps, registryFile, clock, reqs, chain>>

\* mutant: a failing `pm2 jlist` is reported as a process that is not there
getPM2ProcessInfo_stopped(p, ok) ==
    IF ~ok \/ ~p.exists THEN StoppedInfo
    ELSE [StoppedInfo EXCEPT !.status = "online", !.restarts = p.restarts]

\* getPM2ProcessInfo: ok is the outcome of `pm2 jlist` and of parsing its output
getPM2ProcessInfo(p, ok) ==
    IF ~ok THEN [StoppedInfo EXCEPT !.status = "unknown"]
    ELSE IF ~p.exists THEN StoppedInfo
    ELSE [StoppedInfo EXCEPT !.status = "online", !.restarts = p.restarts]

\* GET /status/<app>
GetStatus(a) ==
    /\ budget > 0
    /\ budget' = budget - 1
    /\ gateStatus(rateLimitMap, "x", AUTH_TOKEN, now) = 0
    /\ Gate("x", AUTH_TOKEN)
    /\ \E ok \in Oks :
         last' = [NoResp EXCEPT !.kind = "status", !.app = a, !.status = 200,
                                !.msg = IF ok THEN "listed" ELSE "query failed",
                                !.pm2 = getPM2ProcessInfo(proc[a], ok)]
    /\ UNCHANGED <<env, fsVars, proc, apps, registryFile, clock, reqs, chain>>

\* POST /restart/<app>: execSync(pm2 restart), 200, or 404 from the catch block
RestartApp(a) ==
    /\ budget > 0
    /\ budget' = budget - 1
    /\ gateStatus(rateLimitMap, "x", AUTH_TOKEN, now) = 0
    /\ Gate("x", AUTH_TOKEN)
    /\ \E ok \in Oks :
         IF proc[a].exists /\ ok
         THEN /\ proc' = [proc EXCEPT ![a] = pm2Restart(@)]
              /\ last' = [NoResp EXCEPT !.kind = "restart", !.app = a, !.status = 200,
                                        !.msg = "App restarted successfully"]
         ELSE /\ proc' = proc
              /\ last' = [NoResp EXCEPT !.kind = "restart", !.app = a, !.status = 404,
                                        !.msg = nameErrorMessage("restart")]
    /\ UNCHANGED <<env, fsVars, apps, registryFile, clock, reqs, chain>>

\* ------------------------------------------------------------ arrival
\* handleApiRequest dispatches to a handler, which runs up to its first await.
\* destroyApp runs `pm2 delete` (execSync) before it awaits fs.rm.
FirstPc(k) ==
    CASE k = "deploy" -> "mkdirBase"
      [] k = "rollback" -> "rReadPrev"
      [] k = "destroy" -> "xRm"

Snapshot(a) ==
    [cur |-> current[a], prev |-> previous[a], rel |-> releases[a], proc |-> proc[a],
     rec |-> apps[a]]

\* mutant: rollback asks for the restart before it looks at the symlinks
pm2AtArrival_restartFirst(k, p) ==
    IF k = "destroy" THEN NoProc
    ELSE IF k = "rollback" /\ p.exists THEN [p EXCEPT !.restarts = @ + 1]
    ELSE p

\* the execSync calls a handler makes before its first await
pm2AtArrival(k, p) == IF k = "destroy" THEN NoProc ELSE p

Start(k, a) ==
    /\ budget > 0
    /\ budget' = budget - 1
    /\ reqs' = Put(Overlapped(reqs, a),
                   [NewReq EXCEPT !.pc = FirstPc(k), !.kind = k, !.app = a,
                                  !.solo = (Others(a) = {}),
                                  !.pre = IF Others(a) = {} THEN Snapshot(a) ELSE NoPre])
    /\ chain' = [chain EXCEPT ![a] =
                   IF k = "rollback" /\ Others(a) = {}
                   THEN IF chain[a].armed /\ chain[a].n = 1 THEN chain[a]
                        ELSE [armed |-> TRUE, n |-> 0, cur |-> current[a],
                              prev |-> previous[a]]
                   ELSE NoChain]
    /\ proc' = [proc EXCEPT ![a] = pm2AtArrival(k, @)]
    /\ last' = NoResp
    /\ gateStatus(rateLimitMap, "x", AUTH_TOKEN, now) = 0
    /\ Gate("x", AUTH_TOKEN)
    /\ UNCHANGED <<env, fsVars, apps, registryFile, clock>>

\* --------------------------------------------------------- acquireLock
\* await fs.mkdir(paths.base, { recursive: true })
MkdirBase(q) ==
    LET a == q.app IN
    /\ q.pc = "mkdirBase"
    /\ base' = [base EXCEPT ![a] = TRUE]
    /\ Set(q, [q EXCEPT !.pc = "statLock"])
    /\ last' = NoResp
    /\ UNCHANGED <<gateVars, env, budget, lock, current, previous, relDir, releases,
                   extracted, proc, apps, registryFile, clock, chain>>

\* await fs.stat(paths.lock), lockAge > 600000
StatLock(q) ==
    LET a == q.app IN
    /\ q.pc = "statLock"
    /\ CASE lock[a] = "none" -> Set(q, [q EXCEPT !.pc = "writeLock"]) /\ last' = NoResp
         [] lock[a] = "stale" -> Set(q, [q EXCEPT !.pc = "unlinkStale"]) /\ last' = NoResp
         [] lock[a] = "fresh" -> Catch(q, q, "Deployment already in progress")
    /\ UNCHANGED <<gateVars, env, budget, fsVars, proc, apps, registryFile, clock, chain>>

\* await fs.unlink(paths.lock); ENOENT is swallowed
UnlinkStale(q) ==
    LET a == q.app IN
    /\ q.pc = "unlinkStale"
    /\ lock' = [lock EXCEPT ![a] = "none"]
    /\ Set(q, [q EXCEPT !.pc = "writeLock"])
    /\ last' = NoResp
    /\ UNCHANGED <<gateVars, env, budget, base, current, previous, relDir, releases,
                   extracted, proc, apps, registryFile, clock, chain>>

\* await fs.writeFile(paths.lock, ...); then getAppPort, Date.now(), previousLink
WriteLock(q) ==
    LET a == q.app IN
    /\ q.pc = "writeLock"
    /\ IF base[a]
       THEN /\ lock' = [lock EXCEPT ![a] = "fresh"]
            /\ clock' = [clock EXCEPT ![a] = @ + 1]
            /\ Set(q, [q EXCEPT !.pc = "mkdirRelease", !.ts = clock[a],
                                !.port = assignedPort(apps, a),
                                !.previousLink = TRUE])
            /\ last' = NoResp
       ELSE /\ Catch(q, q, "ENOENT")
            /\ UNCHANGED <<lock, clock>>
    /\ UNCHANGED <<gateVars, env, budget, base, current, previous, relDir, releases,
                   extracted, proc, apps, registryFile, chain>>

\* the lock marker grows older than 600000 ms; its age is read by fs.stat only,
\* so the step is taken when a stat of the marker is pending
Age(a) ==
    /\ lock[a] = "fresh"
    /\ \E q \in InFlight : q.app = a /\ q.pc = "statLock"
    /\ lock' = [lock EXCEPT ![a] = "stale"]
    /\ last' = NoResp
    /\ UNCHANGED <<gateVars, env, budget, base, current, previous, relDir, releases,
                   extracted, proc, apps, registryFile, clock, reqs, chain>>

\* mutant: the lock is released at the end of the try block, not in finally
ReleaseLock_successOnly(q) ==
    LET a == q.app IN
    /\ q.pc = "releaseLock"
    /\ lock' = [lock EXCEPT ![a] = IF q.status = 200 THEN "none" ELSE @]
    /\ reqs' = Take(reqs, q)
    /\ last' = NoResp
    /\ UNCHANGED <<gateVars, env, budget, base, current, previous, relDir, releases,
                   extracted, proc, apps, registryFile, clock, chain>>

\* await releaseLock(safeAppName) in the finally block
ReleaseLock(q) ==
    LET a == q.app IN
    /\ q.pc = "releaseLock"
    /\ lock' = [lock EXCEPT ![a] = "none"]
    /\ reqs' = Take(reqs, q)
    /\ last' = NoResp
    /\ UNCHANGED <<gateVars, env, budget, base, current, previous, relDir, releases,
                   extracted, proc, apps, registryFile, clock, chain>>

\* --------------------------------------------------- deploy: extraction
\* await fs.mkdir(paths.release, { recursive: true })
MkdirRelease(q) ==
    LET a == q.app IN
    /\ q.pc = "mkdirRelease"
    /\ base' = [base EXCEPT ![a] = TRUE]
    /\ relDir' = [relDir EXCEPT ![a] = TRUE]
    /\ releases' = [releases EXCEPT ![a] = @ \cup {q.ts}]
    /\ Set(q, [q EXCEPT !.pc = "extract"])
    /\ last' = NoResp
    /\ UNCHANGED <<gateVars, env, budget, lock, current, previous, extracted,
                   proc, apps, registryFile, clock, chain>>

\* await pipeline(req, fileStream); tar -xzf tempFile -C paths.release (60000 ms);
\* await fs.unlink(tempFile); await fs.readdir(paths.release).
\* These awaits touch only the request's own temp file and release directory,
\* so they are one step; the release counts as extracted when tar ended with 0.
Extract(q) ==
    LET a == q.app IN
    /\ q.pc = "extract"
    /\ \E upload \in Oks, tar \in Oks :
         IF upload /\ tar /\ q.ts \in releases[a]
         THEN /\ extracted' = [extracted EXCEPT ![a] = @ \cup {q.ts}]
              /\ Set(q, [q EXCEPT !.pc = "readlinkCurrent"])
              /\ last' = NoResp
         ELSE /\ Catch(q, q, IF upload THEN "tar failed" ELSE "upload failed")
              /\ UNCHANGED extracted
    /\ UNCHANGED <<gateVars, env, budget, base, lock, current, previous, relDir, releases,
                   proc, apps, registryFile, clock, chain>>

\* --------------------------------------------------- deploy: activation
\* currentTarget = await fs.readlink(paths.current), errors swallowed
ReadlinkCurrent(q) ==
    LET a == q.app IN
    /\ q.pc = "readlinkCurrent"
    /\ Set(q, [q EXCEPT !.curT = current[a],
                        !.pc = IF current[a] # 0 THEN "unlinkPrevious"
                               ELSE "unlinkCurrent"])
    /\ last' = NoResp
    /\ UNCHANGED <<gateVars, env, budget, fsVars, proc, apps, registryFile, clock, chain>>

\* await fs.unlink(paths.previous), errors swallowed
UnlinkPrevious(q) ==
    LET a == q.app IN
    /\ q.pc = "unlinkPrevious"
    /\ previous' = [previous EXCEPT ![a] = 0]
    /\ Set(q, [q EXCEPT !.pc = "symlinkPrevious"])
    /\ last' = NoResp
    /\ UNCHANGED <<gateVars, env, budget, base, lock, current, relDir, releases, extracted,
                   proc, apps, registryFile, clock, chain>>

\* await fs.symlink(currentTarget, paths.previous): EEXIST / ENOENT throw
SymlinkPrevious(q) ==
    LET a == q.app IN
    /\ q.pc = "symlinkPrevious"
    /\ IF base[a] /\ previous[a] = 0
       THEN /\ previous' = [previous EXCEPT ![a] = q.curT]
            /\ Set(q, [q EXCEPT !.pc = "unlinkCurrent", !.curT = 0])
            /\ last' = NoResp
       ELSE /\ Catch(q, q, "symlink failed")
            /\ UNCHANGED previous
    /\ UNCHANGED <<gateVars, env, budget, base, lock, current, relDir, releases, extracted,
                   proc, apps, registryFile, clock, chain>>

\* await fs.unlink(paths.current), errors swallowed
UnlinkCurrent(q) ==
    LET a == q.app IN
    /\ q.pc = "unlinkCurrent"
    /\ current' = [current EXCEPT ![a] = 0]
    /\ Set(q, [q EXCEPT !.pc = "symlinkCurrent", !.curT = 0])
    /\ last' = NoResp
    /\ UNCHANGED <<gateVars, env, budget, base, lock, previous, relDir, releases, extracted,
                   proc, apps, registryFile, clock, chain>>

\* await fs.symlink(paths.release, paths.current): EEXIST / ENOENT throw
SymlinkCurrent(q) ==
    LET a == q.app IN
    /\ q.pc = "symlinkCurrent"
    /\ IF base[a] /\ current[a] = 0
       THEN /\ current' = [current EXCEPT ![a] = q.ts]
            /\ Set(q, [q EXCEPT !.pc = "manifest", !.activated = TRUE])
            /\ last' = NoResp
       ELSE /\ Catch(q, q, "symlink failed")
            /\ UNCHANGED current
    /\ UNCHANGED <<gateVars, env, budget, base, lock, previous, relDir, releases, extracted,
                   proc, apps, registryFile, clock, chain>>

\* ------------------------------------------- deploy: launch command, install
\* pkg.scripts?.start, else pkg.main, else 'index.js'; 'index.js' when unreadable
scriptOf(pkg) ==
    CASE pkg = "start" -> "npm"
      [] pkg = "main" -> "main"
      [] OTHER -> "index.js"

\* await fs.access(packageJsonPath) succeeds, so execSync(installCmd) runs
installs(pkg) == pkg # "none"

\* try { execSync(pm2 describe); execSync(pm2 restart --update-env) } catch { ... }
\* TRUE when the restart branch ran to its end
Restarted(a, supervisorOk) == proc[a].exists /\ supervisorOk

\* the synchronous code from the install block to the next await
SwapSync(q, q2, supervisorOk) ==
    LET a == q.app IN
    IF Restarted(a, supervisorOk)
    THEN /\ proc' = [proc EXCEPT ![a] = pm2Restart(@)]
         /\ Set(q, [q2 EXCEPT !.pc = "settle"])
    ELSE /\ proc' = proc
         /\ Set(q, [q2 EXCEPT !.pc = "writePm2Config"])

\* JSON.parse(await fs.readFile(packageJsonPath)), await fs.access(packageJsonPath),
\* await fs.access(yarn.lock), execSync(installCmd) with its failure only logged:
\* reads of the request's own release, one step.  The manifest is whatever the
\* archive carried, and is missing when the release is gone or partial.
Manifest(q) ==
    LET a == q.app IN
    /\ q.pc = "manifest"
    /\ \E pkg \in env.manifests \cup {"none"}, supervisorOk \in Oks :
        /\ q.ts \notin (releases[a] \cap extracted[a]) => pkg = "none"
        /\ SwapSync(q, [q EXCEPT !.script = scriptOf(pkg), !.installed = installs(pkg)],
                    supervisorOk)
    /\ last' = NoResp
    /\ UNCHANGED <<gateVars, env, budget, fsVars, apps, registryFile, clock, chain>>

\* what `pm2 start <config>` leaves in the process list
pm2Start(p, script) ==
    IF p.exists THEN [p EXCEPT !.restarts = @ + 1]
    ELSE [exists |-> TRUE, script |-> script, restarts |-> 0]

\* await fs.writeFile(paths.pm2Config, ...); execSync(pm2 start ...)
WritePm2Config(q) ==
    LET a == q.app IN
    /\ q.pc = "writePm2Config"
    /\ IF ~base[a]
       THEN Catch(q, q, "ENOENT") /\ proc' = proc
       ELSE \E ok \in Oks :
              IF ok
              THEN /\ proc' = [proc EXCEPT ![a] = pm2Start(@, q.script)]
                   /\ Set(q, [q EXCEPT !.pc = "settle", !.installed = FALSE])
                   /\ last' = NoResp
              ELSE /\ Catch(q, q, "PM2 start failed")
                   /\ proc' = proc
    /\ UNCHANGED <<gateVars, env, budget, fsVars, apps, registryFile, clock, chain>>

\* ------------------------------------------- deploy: confirm, health check
\* after the 2000 ms settle delay: execSync(pm2 describe); if (healthCheck).
\* healthCheck is the request's health_check parameter, first used here.
Settle(q) ==
    LET a == q.app IN
    /\ q.pc = "settle"
    /\ \E supervisorOk \in Oks, hc \in env.healthChecks :
         IF proc[a].exists /\ supervisorOk
         THEN /\ Set(q, [q EXCEPT !.hc = hc, !.installed = FALSE,
                                  !.pc = IF hc THEN "health" ELSE "readdirReleases"])
              /\ last' = NoResp
         ELSE Catch(q, [q EXCEPT !.rollbackNeeded = TRUE], "PM2 process failed to start")
    /\ UNCHANGED <<gateVars, env, budget, fsVars, proc, apps, registryFile, clock, chain>>

\* mutant: the loop bound is compared with <=, which allows an 11th poll
Health_extraPoll(q) ==
    /\ q.pc = "health"
    /\ \E is200 \in Oks :
         IF is200
         THEN Set(q, [q EXCEPT !.pc = "readdirReleases", !.attempt = 0]) /\ last' = NoResp
         ELSE IF q.attempt + 1 <= maxAttempts
         THEN Set(q, [q EXCEPT !.attempt = @ + 1]) /\ last' = NoResp
         ELSE Catch(q, [q EXCEPT !.rollbackNeeded = TRUE], "Health check failed")
    /\ UNCHANGED <<gateVars, env, budget, fsVars, proc, apps, registryFile, clock, chain>>

\* one pass of the polling loop: the delay, the GET and its outcome
Health(q) ==
    /\ q.pc = "health"
    /\ \E is200 \in Oks :
         IF is200
         THEN Set(q, [q EXCEPT !.pc = "readdirReleases", !.attempt = 0]) /\ last' = NoResp
         ELSE IF q.attempt + 1 < maxAttempts
         THEN Set(q, [q EXCEPT !.attempt = @ + 1]) /\ last' = NoResp
         ELSE Catch(q, [q EXCEPT !.rollbackNeeded = TRUE], "Health check failed")
    /\ UNCHANGED <<gateVars, env, budget, fsVars, proc, apps, registryFile, clock, chain>>

\* ------------------------------------------------ deploy: cleanup, commit
\* apps[safeAppName] = {...}; saveRegistry() up to its await fs.mkdir(BASE_DIR)
Commit(q) ==
    /\ apps' = [apps EXCEPT ![q.app] = AppRecord(q.ts, q.hc, q.port)]
    /\ Set(q, [q EXCEPT !.pc = "saveMkdir", !.todo = {}])

\* const releases = await fs.readdir(paths.releases);
\* the entries the loop removes: release !== timestamp.toString()
\* mutant: the cleanup spares the release 'previous' points at
oldReleases_keepPrevious(a, ts) == releases[a] \ {ts, previous[a]}

oldReleases(a, ts) == releases[a] \ {ts}

ReaddirReleases(q) ==
    LET a == q.app
        old == oldReleases(a, q.ts) IN
    /\ q.pc = "readdirReleases"
    /\ IF ~relDir[a]
       THEN Catch(q, q, "ENOENT") /\ apps' = apps
       ELSE /\ last' = NoResp
            /\ IF old = {} THEN Commit(q)
               ELSE Set(q, [q EXCEPT !.pc = "rmOld", !.todo = old]) /\ apps' = apps
    /\ UNCHANGED <<gateVars, env, budget, fsVars, proc, registryFile, clock, chain>>

\* await fs.rm(oldRelease, { recursive: true, force: true })
RmOld(q) ==
    LET a == q.app IN
    /\ q.pc = "rmOld"
    /\ \E x \in q.todo, ok \in Oks :
         IF ok
         THEN /\ releases' = [releases EXCEPT ![a] = @ \ {x}]
              /\ extracted' = [extracted EXCEPT ![a] = @ \ {x}]
              /\ last' = NoResp
              /\ IF q.todo = {x} THEN Commit(q)
                 ELSE Set(q, [q EXCEPT !.todo = @ \ {x}]) /\ apps' = apps
         ELSE /\ Catch(q, q, "rm failed")
              /\ UNCHANGED <<releases, extracted, apps>>
    /\ UNCHANGED <<gateVars, env, budget, base, lock, current, previous, relDir,
                   proc, registryFile, clock, chain>>

\* saveRegistry: await fs.mkdir(BASE_DIR); JSON.stringify(apps) is taken here
SaveMkdir(q) ==
    /\ q.pc \in {"saveMkdir", "xSaveMkdir"}
    /\ Set(q, [q EXCEPT !.pc = IF q.kind = "deploy" THEN "saveWrite" ELSE "xSaveWrite",
                        !.snap = apps])
    /\ last' = NoResp
    /\ UNCHANGED <<gateVars, env, budget, fsVars, proc, apps, registryFile, clock, chain>>

\* saveRegistry: await fs.writeFile(REGISTRY_FILE, ...); then the 200 response
SaveWrite(q) ==
    /\ q.pc = "saveWrite"
    /\ \E ok \in Oks :
         IF ok
         THEN /\ registryFile' = q.snap
              /\ Set(q, [q EXCEPT !.pc = "releaseLock", !.status = 200,
                                  !.msg = "Deployment successful", !.snap = NewReq.snap])
              /\ last' = Response(q, 200, "Deployment successful")
         ELSE /\ Catch(q, q, "write failed")
              /\ registryFile' = registryFile
    /\ UNCHANGED <<gateVars, env, budget, fsVars, proc, apps, clock, chain>>

\* ------------------------------------------ deploy: automatic rollback
\* mutant: the catch block gives up as if 'previous' could not be read
RbReadlink_unread(q) ==
    /\ q.pc = "rbReadlink"
    /\ CatchEnd(q)
    /\ UNCHANGED <<gateVars, env, budget, fsVars, proc, apps, registryFile, clock, chain>>

\* previousTarget = await fs.readlink(previousLink)
RbReadlink(q) ==
    LET a == q.app IN
    /\ q.pc = "rbReadlink"
    /\ IF previous[a] # 0
       THEN Set(q, [q EXCEPT !.pc = "rbUnlink", !.prevT = previous[a]]) /\ last' = NoResp
       ELSE CatchEnd(q)
    /\ UNCHANGED <<gateVars, env, budget, fsVars, proc, apps, registryFile, clock, chain>>

\* await fs.unlink(rollbackPaths.current)
RbUnlink(q) ==
    LET a == q.app IN
    /\ q.pc = "rbUnlink"
    /\ IF current[a] # 0
       THEN /\ current' = [current EXCEPT ![a] = 0]
            /\ Set(q, [q EXCEPT !.pc = "rbSymlink"])
            /\ last' = NoResp
       ELSE CatchEnd(q) /\ current' = current
    /\ UNCHANGED <<gateVars, env, budget, base, lock, previous, relDir, releases, extracted,
                   proc, apps, registryFile, clock, chain>>

\* await fs.symlink(previousTarget, rollbackPaths.current); execSync(pm2 restart)
RbSymlink(q) ==
    LET a == q.app IN
    /\ q.pc = "rbSymlink"
    /\ CatchEnd(q)
    /\ IF base[a] /\ current[a] = 0
       THEN /\ current' = [current EXCEPT ![a] = q.prevT]
            /\ \E supervisorOk \in Oks :
                 proc' = IF proc[a].exists /\ supervisorOk
                         THEN [proc EXCEPT ![a] = pm2Restart(@)] ELSE proc
       ELSE UNCHANGED <<current, proc>>
    /\ UNCHANGED <<gateVars, env, budget, base, lock, previous, relDir, releases, extracted,
                   apps, registryFile, clock, chain>>

\* ------------------------------------------------------ manual rollback
\* every failure inside rollback's try block ends in sendError(res, 404, ...)
NoPrevious == "No previous version to rollback to"

RollbackEnd(q, status, msg) ==
    /\ Finish(q, status, msg)
    /\ chain' = [chain EXCEPT ![q.app] =
                   IF status = 200 /\ @.armed /\ q.solo /\ @.n < 2
                   THEN [@ EXCEPT !.n = @ + 1]
                   ELSE NoChain]

\* mutant: 'current' is recreated with its old target
rollbackCurrentTarget_same(q) == q.curT

\* fs.symlink(previousTarget, paths.current)
rollbackCurrentTarget(q) == q.prevT

\* mutant: 'previous' is recreated with its old target, as the automatic
\* rollback leaves it
rollbackPreviousTarget_same(q) == q.prevT

\* fs.symlink(currentTarget, paths.previous)
rollbackPreviousTarget(q) == q.curT

\* previousTarget = await fs.readlink(paths.previous)
RReadPrev(q) ==
    LET a == q.app IN
    /\ q.pc = "rReadPrev"
    /\ IF previous[a] # 0
       THEN /\ Set(q, [q EXCEPT !.pc = "rReadCur", !.prevT = previous[a]])
            /\ last' = NoResp /\ UNCHANGED chain
       ELSE RollbackEnd(q, 404, NoPrevious)
    /\ UNCHANGED <<gateVars, env, budget, fsVars, proc, apps, registryFile, clock>>

\* currentTarget = await fs.readlink(paths.current)
RReadCur(q) ==
    LET a == q.app IN
    /\ q.pc = "rReadCur"
    /\ IF current[a] # 0
       THEN /\ Set(q, [q EXCEPT !.pc = "rUnlinkCur", !.curT = current[a]])
            /\ last' = NoResp /\ UNCHANGED chain
       ELSE RollbackEnd(q, 404, NoPrevious)
    /\ UNCHANGED <<gateVars, env, budget, fsVars, proc, apps, registryFile, clock>>

\* await fs.unlink(paths.current)
RUnlinkCur(q) ==
    LET a == q.app IN
    /\ q.pc = "rUnlinkCur"
    /\ IF current[a] # 0
       THEN /\ current' = [current EXCEPT ![a] = 0]
            /\ Set(q, [q EXCEPT !.pc = "rSymlinkCur"])
            /\ last' = NoResp /\ UNCHANGED chain
       ELSE RollbackEnd(q, 404, NoPrevious) /\ current' = current
    /\ UNCHANGED <<gateVars, env, budget, base, lock, previous, relDir, releases, extracted,
                   proc, apps, registryFile, clock>>

\* await fs.symlink(previousTarget, paths.current)
RSymlinkCur(q) ==
    LET a == q.app IN
    /\ q.pc = "rSymlinkCur"
    /\ IF base[a] /\ current[a] = 0
       THEN /\ current' = [current EXCEPT ![a] = rollbackCurrentTarget(q)]
            /\ Set(q, [q EXCEPT !.pc = "rUnlinkPrev"])
            /\ last' = NoResp /\ UNCHANGED chain
       ELSE RollbackEnd(q, 404, NoPrevious) /\ current' = current
    /\ UNCHANGED <<gateVars, env, budget, base, lock, previous, relDir, releases, extracted,
                   proc, apps, registryFile, clock>>

\* await fs.unlink(paths.previous)
RUnlinkPrev(q) ==
    LET a == q.app IN
    /\ q.pc = "rUnlinkPrev"
    /\ IF previous[a] # 0
       THEN /\ previous' = [previous EXCEPT ![a] = 0]
            /\ Set(q, [q EXCEPT !.pc = "rSymlinkPrev"])
            /\ last' = NoResp /\ UNCHANGED chain
       ELSE RollbackEnd(q, 404, NoPrevious) /\ previous' = previous
    /\ UNCHANGED <<gateVars, env, budget, base, lock, current, relDir, releases, extracted,
                   proc, apps, registryFile, clock>>

\* await fs.symlink(currentTarget, paths.previous); execSync(pm2 restart); 200
RSymlinkPrev(q) ==
    LET a == q.app IN
    /\ q.pc = "rSymlinkPrev"
    /\ IF base[a] /\ previous[a] = 0
       THEN /\ previous' = [previous EXCEPT ![a] = rollbackPreviousTarget(q)]
            /\ \E supervisorOk \in Oks :
                 IF proc[a].exists /\ supervisorOk
                 THEN /\ proc' = [proc EXCEPT ![a] = pm2Restart(@)]
                      /\ RollbackEnd(q, 200, "Rollback successful")
                 ELSE /\ proc' = proc
                      /\ RollbackEnd(q, 404, NoPrevious)
       ELSE /\ RollbackEnd(q, 404, NoPrevious)
            /\ UNCHANGED <<previous, proc>>
    /\ UNCHANGED <<gateVars, env, budget, base, lock, current, relDir, releases, extracted,
                   apps, registryFile, clock>>

\* -------------------------------------------------------------- destroy
\* await fs.rm(paths.base, { recursive: true, force: true }); delete apps[name]
XRm(q) ==
    LET a == q.app IN
    /\ q.pc = "xRm"
    /\ base' = [base EXCEPT ![a] = FALSE]
    /\ relDir' = [relDir EXCEPT ![a] = FALSE]
    /\ lock' = [lock EXCEPT ![a] = "none"]
    /\ current' = [current EXCEPT ![a] = 0]
    /\ previous' = [previous EXCEPT ![a] = 0]
    /\ releases' = [releases EXCEPT ![a] = {}]
    /\ extracted' = [extracted EXCEPT ![a] = {}]
    /\ apps' = [apps EXCEPT ![a] = NoRec]
    /\ Set(q, [q EXCEPT !.pc = "xSaveMkdir"])
    /\ last' = NoResp
    /\ UNCHANGED <<gateVars, env, budget, proc, registryFile, clock, chain>>

\* saveRegistry: await fs.writeFile(REGISTRY_FILE, ...); then the response
XSaveWrite(q) ==
    /\ q.pc = "xSaveWrite"
    /\ \E ok \in Oks :
         IF ok
         THEN /\ registryFile' = q.snap
              /\ Finish(q, 200, "App destroyed successfully")
         ELSE /\ registryFile' = registryFile
              /\ Finish(q, 500, "Failed to destroy app")
    /\ UNCHANGED <<gateVars, env, budget, fsVars, proc, apps, clock, chain>>

\* ----------------------------------------------------------------- Next
Arrive == \E k \in Kinds, a \in Apps : Start(k, a)

Acquire ==
    \/ \E q \in InFlight : MkdirBase(q)
    \/ \E q \in InFlight : StatLock(q)
    \/ \E q \in InFlight : UnlinkStale(q)
    \/ \E q \in InFlight : WriteLock(q)

Unpack ==
    \/ \E q \in InFlight : MkdirRelease(q)
    \/ \E q \in InFlight : Extract(q)

Activate ==
    \/ \E q \in InFlight : ReadlinkCurrent(q)
    \/ \E q \in InFlight : UnlinkPrevious(q)
    \/ \E q \in InFlight : SymlinkPrevious(q)
    \/ \E q \in InFlight : UnlinkCurrent(q)
    \/ \E q \in InFlight : SymlinkCurrent(q)

Launch ==
    \/ \E q \in InFlight : Manifest(q)
    \/ \E q \in InFlight : WritePm2Config(q)
    \/ \E q \in InFlight : Settle(q)
    \/ \E q \in InFlight : Health(q)

CommitSteps ==
    \/ \E q \in InFlight : ReaddirReleases(q)
    \/ \E q \in InFlight : RmOld(q)
    \/ \E q \in InFlight : SaveMkdir(q)
    \/ \E q \in InFlight : SaveWrite(q)
    \/ \E q \in InFlight : ReleaseLock(q)

AutoRollback ==
    \/ \E q \in InFlight : RbReadlink(q)
    \/ \E q \in InFlight : RbUnlink(q)
    \/ \E q \in InFlight : RbSymlink(q)

ManualRollback ==
    \/ \E q \in InFlight : RReadPrev(q)
    \/ \E q \in InFlight : RReadCur(q)
    \/ \E q \in InFlight : RUnlinkCur(q)
    \/ \E q \in InFlight : RSymlinkCur(q)
    \/ \E q \in InFlight : RUnlinkPrev(q)
    \/ \E q \in InFlight : RSymlinkPrev(q)

Destroy ==
    \/ \E q \in InFlight : XRm(q)
    \/ \E q \in InFlight : XSaveWrite(q)

Aging == \E a \in Apps : Age(a)

Next ==
    \/ Arrive
    \/ Acquire
    \/ Unpack
    \/ Activate
    \/ Launch
    \/ CommitSteps
    \/ AutoRollback
    \/ ManualRollback
    \/ Destroy
    \/ Aging

Spec == Init /\ [][Next]_vars

TypeOK ==
    /\ base \in [Apps -> BOOLEAN]
    /\ lock \in [Apps -> {"none", "fresh", "stale"}]
    /\ \A a \in Apps : extracted[a] \subseteq releases[a]
    /\ \A a \in Apps : ~base[a] =>
          lock[a] = "none" /\ current[a] = 0 /\ previous[a] = 0 /\ ~relDir[a]
    /\ \A a \in Apps : ~relDir[a] => releases[a] = {}
    /\ budget \in Nat
    /\ \A ip \in IPs : rateLimitMap[ip].count \in 0..RateCap
    /\ Ticks(now) \in 0..MaxTicks

\* ------------------------------------------------- SpecFair
\* Every awaited file-system call completes, every external tool returns or
\* is killed at its timeout, every timer fires: the steps that follow them are
\* taken.  The exception is the upload, await pipeline(req, fileStream): the
\* code sets no timeout on the request, so the step that follows it (Extract)
\* is taken only if the client finishes or breaks the upload.
Fairness ==
    /\ WF_vars(Acquire)
    /\ WF_vars(\E q \in InFlight : MkdirRelease(q))
    /\ WF_vars(Activate)
    /\ WF_vars(Launch)
    /\ WF_vars(CommitSteps)
    /\ WF_vars(AutoRollback)
    /\ WF_vars(ManualRollback)
    /\ WF_vars(Destroy)

SpecFair == Spec /\ Fairness

\* ------------------------------------------------- SpecHealthy
\* Deploy requests only, of archives without a manifest and without a
\* health_check parameter, with external tools and disk writes that never
\* fail, on an empty base directory.
InitHealthy ==
    /\ env = [oks |-> {TRUE}, manifests |-> {"none"}, healthChecks |-> {FALSE}]
    /\ budget = MaxDeploys
    /\ InitDisk({})

ArriveDeploy == \E a \in Apps : Start("deploy", a)

NextHealthy ==
    \/ ArriveDeploy
    \/ \E q \in InFlight : MkdirBase(q)
    \/ \E q \in InFlight : StatLock(q)
    \/ \E q \in InFlight : WriteLock(q)
    \/ Unpack
    \/ Activate
    \/ \E q \in InFlight : Manifest(q)
    \/ \E q \in InFlight : WritePm2Config(q)
    \/ \E q \in InFlight : Settle(q)
    \/ CommitSteps

SpecHealthy == InitHealthy /\ [][NextHealthy]_vars

\* ------------------------------------------------- SpecGate
\* Requests without an app name from three addresses, and the passing of
\* time: the checks at the head of handleApiRequest on their own.
InitGate ==
    /\ env = [oks |-> {TRUE}, manifests |-> {"none"}, healthChecks |-> {FALSE}]
    /\ budget = MaxGateReq
    /\ InitDisk({})

Requests == \E ip \in IPs, token \in Tokens : GateRequest(ip, token)

Time == \E d \in {1, RateWindow} : Tick(d)

NextGate ==
    \/ Requests
    \/ Time

SpecGate == InitGate /\ [][NextGate]_vars

\* ------------------------------------------------- SpecOps
\* The handlers that answer without an await: requests with a malformed app
\* name, status and restart requests, on a base directory left by earlier runs.
InitOps ==
    /\ env = [oks |-> BOOLEAN, manifests |-> PkgKinds, healthChecks |-> BOOLEAN]
    /\ budget = MaxOps
    /\ \E D \in {{}, {"a"}, Apps} : InitDisk(D)

BadNames == \E k \in Actions, name \in Names : Malformed(k, name)

StatusRequests == \E a \in Apps : GetStatus(a)

RestartRequests == \E a \in Apps : RestartApp(a)

NextOps ==
    \/ BadNames
    \/ StatusRequests
    \/ RestartRequests

SpecOps == InitOps /\ [][NextOps]_vars

\* ------------------------------------------------- concurrent rollbacks
\* Manual rollbacks only, of apps that have 'current' and 'previous' on two
\* different releases, with every file-system call possible and the
\* supervisor answering every restart.
InitRollbacks ==
    /\ env = [oks |-> {TRUE}, manifests |-> PkgKinds, healthChecks |-> BOOLEAN]
    /\ budget = MaxRollbacks
    /\ \E D \in {{"a"}, Apps} : InitDisk(D)

ArriveRollback == \E a \in Apps : Start("rollback", a)

NextRollbacks ==
    \/ ArriveRollback
    \/ \E q \in InFlight : RReadPrev(q)
    \/ \E q \in InFlight : RReadCur(q)
    \/ \E q \in InFlight : RUnlinkCur(q)
    \/ \E q \in InFlight : RSymlinkCur(q)
    \/ \E q \in InFlight : RUnlinkPrev(q)
    \/ \E q \in InFlight : RSymlinkPrev(q)

SpecRollbacks == InitRollbacks /\ [][NextRollbacks]_vars

\* ------------------------------------------- rollback during a deploy
\* One deploy of an app whose 'current' is on release 2 and 'previous' on
\* release 1, and manual rollbacks of that app that arrive while the deploy is
\* in flight; every tool may fail.
InitDuring ==
    /\ env = [oks |-> BOOLEAN, manifests |-> PkgKinds, healthChecks |-> BOOLEAN]
    /\ budget = MaxDuring + 1
    /\ InitDisk(Apps)

ArriveFirst == budget = MaxDuring + 1 /\ \E a \in Apps : Start("deploy", a)

ArriveDuring == \E q \in InFlight : q.kind = "deploy" /\ Start("rollback", q.app)

NextDuring ==
    \/ ArriveFirst
    \/ ArriveDuring
    \/ \E q \in InFlight : MkdirBase(q)
    \/ \E q \in InFlight : StatLock(q)
    \/ \E q \in InFlight : WriteLock(q)
    \/ Unpack
    \/ Activate
    \/ Launch
    \/ CommitSteps
    \/ AutoRollback
    \/ ManualRollback

SpecDuring == InitDuring /\ [][NextDuring]_vars

\* ---------------------------------------------------------------- claims
\* a deploy between its successful acquireLock and its releaseLock
Holding(a) ==
    {q \in InFlight : q.kind = "deploy" /\ q.app = a /\ q.previousLink}

\* the request q takes this step
Steps(q) == CopiesIn(q, reqs') < CopiesIn(q, reqs)

Answered(q) == q.kind = "deploy" /\ q.pc = "releaseLock"

\* C1: at most one deploy of an app is at any time between a successful
\* acquireLock and its own releaseLock.
C1_OneDeployInFlight ==
    \A a \in Apps : Cardinality(Holding(a)) <= 1

\* C2: a deploy that finds a lock marker of age <= 600 s is answered with the
\* conflict error and none of its steps changes the lock marker, 'current',
\* 'previous' or the releases directory.
Rejected(q) ==
    /\ Answered(q)
    /\ q.msg = "Deployment already in progress"

C2_RejectedChangesNothing ==
    [][\A q \in InFlight :
         /\ (q.kind = "deploy" /\ q.pc = "statLock" /\ lock[q.app] = "fresh" /\ Steps(q))
               => (last'.status = 500 /\ last'.msg = "Deployment already in progress")
         /\ (Rejected(q) /\ Steps(q))
               => UNCHANGED <<lock, current, previous, releases>>]_vars

\* C3: when a deploy not overlapped by another request for its app has
\* answered success, 'current' points at its release and the releases
\* directory holds exactly that release.
C3_SuccessLeavesOneRelease ==
    \A q \in InFlight :
        (Answered(q) /\ q.status = 200 /\ q.solo)
            => (current[q.app] = q.ts /\ releases[q.app] = {q.ts})

C3_Witness ==
    \E q \in InFlight :
        /\ Answered(q) /\ q.status = 200 /\ q.solo
        /\ q.pre.cur # 0 /\ q.pre.rel # {}
        /\ last.status = 200

\* C4: after the error response of a deploy whose health check never
\* returned 200, 'current' has the target it had before the deploy began,
\* whether or not the app had a release before.
C4_HealthFailureRestoresCurrent ==
    \A q \in InFlight :
        (Answered(q) /\ q.status = 500 /\ q.msg = "Health check failed" /\ q.solo)
            => current[q.app] = q.pre.cur

\* C5: a deploy that fails after 'current' was repointed to its release ends
\* with 'current' repointed to the target of 'previous', never still on the
\* new release (stated for an app that had a release before the deploy).
C5_FailureAfterActivationRollsBack ==
    \A q \in InFlight :
        (Answered(q) /\ q.status = 500 /\ q.activated /\ q.solo /\ q.pre.cur # 0)
            => (current[q.app] # q.ts /\ current[q.app] = previous[q.app])

\* C6: a manual rollback of an app without 'previous' answers 404 and leaves
\* 'current', the releases directory and the supervised process untouched.
C6_RollbackWithoutPrevious ==
    (last.kind = "rollback" /\ last.solo /\ last.pre.prev = 0)
        => /\ last.status = 404
           /\ current[last.app] = last.pre.cur
           /\ previous[last.app] = 0
           /\ releases[last.app] = last.pre.rel
           /\ proc[last.app] = last.pre.proc

C6_Witness ==
    /\ last.kind = "rollback" /\ last.solo /\ last.pre.prev = 0
    /\ last.status = 404
    /\ last.pre.cur # 0 /\ last.pre.proc.exists

\* C7: a successful manual rollback exchanges the targets of 'current' and
\* 'previous'.
C7_RollbackSwaps ==
    (last.kind = "rollback" /\ last.status = 200 /\ last.solo)
        => /\ current[last.app] = last.pre.prev
           /\ previous[last.app] = last.pre.cur

C7_Witness ==
    /\ last.kind = "rollback" /\ last.status = 200 /\ last.solo
    /\ last.pre.cur # last.pre.prev
    /\ last.pre.cur # 0 /\ last.pre.prev # 0

\* C8: two successful manual rollbacks in a row, with no other request for
\* the app in between, leave 'current' and 'previous' as they were before
\* the first.
C8_TwoRollbacksRestore ==
    \A a \in Apps :
        chain[a].n = 2 => (current[a] = chain[a].cur /\ previous[a] = chain[a].prev)

C8_Witness ==
    \E a \in Apps :
        /\ chain[a].n = 2
        /\ chain[a].cur # chain[a].prev
        /\ last.kind = "rollback" /\ last.status = 200 /\ last.app = a

\* C9: no two app records carry the same assigned port.
C9_UniquePorts ==
    \A a, b \in Apps :
        (a # b /\ apps[a].present /\ apps[b].present /\ apps[a].port # 0)
            => apps[a].port # apps[b].port

\* C10: once a record has a port, the port changes or disappears only through
\* destroy of that app.
C10_PortSticky ==
    [][\A a \in Apps :
         (apps[a].present /\ apps[a].port # 0)
            => \/ apps'[a].present /\ apps'[a].port = apps[a].port
               \/ /\ ~apps'[a].present
                  /\ \E q \in InFlight :
                       q.kind = "destroy" /\ q.app = a /\ q.pc = "xRm" /\ Steps(q)]_vars

\* C11: two deploys of two different apps that run concurrently with healthy
\* external tools both answer success, and each app ends with 'current' on its
\* own release, that single release on disk and its own registry record, as
\* after the two deploys run one after the other (which gives the two records
\* different ports).
C11_IndependentDeploys ==
    \A q \in InFlight :
        (Answered(q) /\ q.solo)
            => /\ q.status = 200
               /\ current[q.app] = q.ts
               /\ releases[q.app] = {q.ts}
               /\ apps[q.app] = AppRecord(q.ts, q.hc, q.port)
               /\ \A b \in Apps \ {q.app} :
                     apps[b].present => apps[b].port # apps[q.app].port

C13_AtomicActivation ==
    [][\A a \in Apps :
         (current[a] # 0 /\ current'[a] = 0)
            => \E q \in InFlight :
                 q.kind = "destroy" /\ q.app = a /\ q.pc = "xRm" /\ Steps(q)]_vars

\* no request for app a is in progress
IdleApp(a) == \A r \in InFlight : r.app # a

\* C14: when the last request in progress for an app ends, 'previous', if
\* present, names the release 'current' named immediately before the most
\* recent repointing of 'current': for a deploy that kept its release, the
\* target found on arrival; for a deploy undone by the automatic rollback,
\* the release of that deploy; for a successful manual rollback, the target
\* found on arrival.
C14_PreviousIsFormerCurrent ==
    [][\A q \in InFlight :
         (Steps(q) /\ q.solo /\ IdleApp(q.app)' /\ previous'[q.app] # 0)
            => /\ (q.kind = "deploy" /\ q.activated)
                     => previous'[q.app] = IF current'[q.app] = q.ts THEN q.pre.cur
                                            ELSE q.ts
               /\ (q.kind = "rollback" /\ last'.status = 200)
                     => previous'[q.app] = q.pre.cur]_vars

\* C15: when the last request in progress ends, the registry holds a record
\* for an app exactly when a deploy of it answered success since its last
\* destroy: the record written by a deploy is there only if that deploy
\* answered success, and it is there after every such deploy.
C15_RecordIffSuccess ==
    [][\A q \in InFlight :
         (q.kind = "deploy" /\ q.pc = "releaseLock" /\ Steps(q) /\ reqs' = EmptyBag)
            => /\ (apps'[q.app].present /\ apps'[q.app].lastDeploy = q.ts)
                     => q.status = 200
               /\ (q.status = 200 /\ q.solo) => apps'[q.app].present]_vars

\* C16: after a successful deploy and after a successful manual rollback the
\* release id of the app's record is the release 'current' points at.
C16_RecordFollowsCurrent ==
    /\ \A q \in InFlight :
         (Answered(q) /\ q.status = 200 /\ q.solo)
            => (apps[q.app].present /\ apps[q.app].lastDeploy = current[q.app])
    /\ (last.kind = "rollback" /\ last.status = 200 /\ last.solo
          /\ apps[last.app].present)
            => apps[last.app].lastDeploy = current[last.app]

C18_ElevenThRejected ==
    (last.kind = "request" /\ checkIPWhitelist(peer.ip))
        => (last.status = 429 <=> win[peer.ip].n > RateCap)

C18_Witness ==
    /\ last.kind = "request" /\ last.status = 429
    /\ win[peer.ip].n = RateCap + 1
    /\ \E ip \in IPs \ {peer.ip} : win[ip].n \in 1..RateCap

\* C19: for every address and every interval of 60 seconds, at most 10
\* requests of that address pass the rate limiter in the interval.
C19_TenPerMinute ==
    \A ip \in IPs : BagCardinality(passLog[ip]) <= RateCap

\* C20: the checks run in the order allowlist, rate limit, token, and the
\* first failing one decides the response: a request of an address that is not
\* allowlisted is answered 403 and leaves the rate-limiter table as it was; a
\* request with a wrong token is answered 429 when its address is over the
\* cap and 401 otherwise, and then it has used one slot of the window.
C20_CheckOrder ==
    [][last'.kind = "request"
         => /\ ~checkIPWhitelist(peer'.ip)
                 => (last'.status = 403 /\ rateLimitMap' = rateLimitMap)
            /\ (checkIPWhitelist(peer'.ip) /\ ~checkAuth(peer'.token))
                 => last'.status = IF win'[peer'.ip].n > RateCap THEN 429 ELSE 401
            /\ last'.status = 401
                 => /\ rateLimitMap'[peer'.ip].present
                    /\ rateLimitMap'[peer'.ip].count = win'[peer'.ip].n
            /\ last'.status = 400
                 => (checkIPWhitelist(peer'.ip) /\ checkAuth(peer'.token))]_vars

C20_Witness ==
    /\ last.kind = "request" /\ last.status = 429
    /\ ~checkAuth(peer.token)
    /\ \E ip \in IPs : ~checkIPWhitelist(ip) /\ rateLimitMap[ip] = NoEntry

\* C21: a request whose app name is malformed is answered 400, for every
\* action, and changes no state of any app.
C21_MalformedName400 ==
    [][(last'.kind \in Actions /\ last'.app = "none")
         => /\ last'.status = 400
            /\ UNCHANGED <<fsVars, proc, apps, registryFile, reqs>>]_vars

\* C25: a status request for a well-formed app name always answers 200 with the five fields of the
\* process; the status is 'stopped' when the supervisor lists no such process
\* and 'unknown' when the query fails.
C25_StatusNeverFails ==
    (last.kind = "status" /\ last.app \in Apps)
        => /\ last.status = 200
           /\ DOMAIN last.pm2 = {"status", "cpu", "memory", "uptime", "restarts"}
           /\ last.msg = "query failed" => last.pm2.status = "unknown"
           /\ (last.msg = "listed" /\ ~proc[last.app].exists)
                 => last.pm2.status = "stopped"
           /\ (last.msg = "listed" /\ proc[last.app].exists)
                 => (last.pm2.status = "online"
                       /\ last.pm2.restarts = proc[last.app].restarts)

C25_Witness ==
    /\ last.kind = "status" /\ last.status = 200
    /\ last.pm2.status = "unknown"
    /\ proc[last.app].exists /\ proc[last.app].restarts > 0

\* C22: when a deploy runs the dependency installer, it has finished before
\* 'current' is repointed to the new release: at the end of the installer's
\* run the deploy has not activated its release yet.
C22_InstallBeforeActivate ==
    \A q \in InFlight : q.installed => ~q.activated

\* C24: after a successful deploy, first or repeated, the supervisor runs the
\* app under the command selected from the release just activated.
C24_LaunchCommandOfNewRelease ==
    \A q \in InFlight :
        (Answered(q) /\ q.status = 200 /\ q.solo)
            => (proc[q.app].exists /\ proc[q.app].script = q.script)

\* a call of saveRegistry is between its start and the end of its writeFile
Saving ==
    \E q \in InFlight : q.pc \in {"saveMkdir", "saveWrite", "xSaveMkdir", "xSaveWrite"}

\* C23: whenever no registry write is in progress, the registry file on disk
\* equals the in-memory registry map.
C23_FileEqualsMemory ==
    ~Saving => registryFile = apps

\* C26: every deploy that passed lock acquisition eventually reaches its
\* terminal outcome, answers and releases the lock: no step waits forever.
C26_DeployTerminates ==
    \A a \in Apps : (Holding(a) # {}) ~> (Holding(a) = {})

\* C27: on the commit path and on the rollback path of a deploy the lock is
\* released before the response is sent: in the state in which the response
\* of a deploy that took the lock can be observed, the lock marker of its app
\* is gone.
C27_ReleasedBeforeResponse ==
    \A q \in InFlight :
        (q.kind = "deploy" /\ q.previousLink /\ q.solo /\ q.status # 0
            /\ last.kind = "deploy" /\ last.app = q.app /\ last.ts = q.ts)
            => lock[q.app] = "none"

Moves(q) == Steps(q) /\ budget' = budget

\* C29: in the process-swap step the supervisor is asked to start from a newly
\* written config only when it has no entry for the app; with an entry the
\* only request is the in-place restart, and a failed restart is not followed
\* by a start from the config.
C29_StartOnlyWithoutEntry ==
    [][\A q \in InFlight :
         (q.pc = "writePm2Config" /\ q.solo /\ Moves(q) /\ proc'[q.app] # proc[q.app])
            => ~proc[q.app].exists]_vars

\* the request r is what the step of request q makes of it
Stepped(q, r) ==
    /\ Moves(q)
    /\ r.kind = q.kind /\ r.app = q.app /\ r.ts = q.ts
    /\ CopiesIn(r, reqs') > CopiesIn(r, reqs)

\* C30: with a health-check path the deploy goes on to the commit only from a
\* poll that returned 200, which ends the polling; any other outcome leads to
\* the next attempt, at most 10 polls are made, and after the 10th failed one
\* the deploy takes the rollback path.
C30_HealthPolling ==
    [][\A q \in InFlight :
         /\ q.pc = "health" => (q.hc /\ q.attempt < maxAttempts)
         /\ \A r \in BagToSet(reqs') :
              Stepped(q, r)
                 => /\ (r.hc /\ r.pc = "readdirReleases" /\ q.pc # r.pc)
                          => q.pc = "health"
                    /\ (q.pc = "health" /\ r.pc # "readdirReleases")
                          => IF q.attempt + 1 < maxAttempts
                             THEN r.pc = "health" /\ r.attempt = q.attempt + 1
                             ELSE /\ r.pc = "rbReadlink" /\ r.rollbackNeeded
                                  /\ r.msg = "Health check failed"]_vars

C30_Witness ==
    \E q \in InFlight :
        /\ Answered(q) /\ q.status = 500 /\ q.msg = "Health check failed"
        /\ q.hc /\ q.solo /\ current[q.app] = q.pre.cur /\ q.pre.cur # 0

\* the ports the registry records hold
HeldPorts == {apps[x].port : x \in {y \in Apps : apps[y].present}}

\* C31: in proxy mode the port given to an app that has no port yet is the
\* smallest integer >= 3001 that no registry record holds at that moment; the
\* port of a destroyed app counts as unused and is handed out next when it is
\* the smallest free one.
C31_SmallestFreePort ==
    [][\A q \in InFlight : \A r \in BagToSet(reqs') :
         (/\ Moves(q) /\ q.kind = "deploy" /\ q.pc = "writeLock"
          /\ CopiesIn(r, reqs') > CopiesIn(r, reqs)
          /\ r.app = q.app /\ r.pc = "mkdirRelease"
          /\ ~(apps[q.app].present /\ apps[q.app].port # 0))
            => /\ r.port >= BasePort
               /\ r.port \notin HeldPorts
               /\ \A p \in BasePort..(r.port - 1) : p \in HeldPorts]_vars

\* a deploy that arrived after its app was destroyed holds the freed port 3001
\* while the other app keeps 3002
C31_Witness ==
    \E q \in InFlight : \E b \in Apps \ {q.app} :
        /\ q.kind = "deploy" /\ q.solo /\ q.ts # 0
        /\ ~q.pre.rec.present /\ q.pre.cur = 0
        /\ apps[b].present /\ apps[b].port = BasePort + 1
        /\ q.port = BasePort

\* C32: after the automatic rollback of a deploy of an app that had a release
\* before, 'current' and 'previous' both name the pre-deploy release, the
\* failed release directory is still on disk, the registry record is
\* unchanged and the response is a 500 with the original failure message.
C32_AutoRollbackResult ==
    \A q \in InFlight :
        (Answered(q) /\ q.solo /\ q.rollbackNeeded /\ q.pre.cur # 0)
            => /\ current[q.app] = q.pre.cur
               /\ previous[q.app] = q.pre.cur
               /\ q.ts \in releases[q.app]
               /\ apps[q.app] = q.pre.rec
               /\ q.status = 500
               /\ q.msg \in {"PM2 process failed to start", "Health check failed"}

C32_Witness ==
    \E q \in InFlight :
        /\ Answered(q) /\ q.solo /\ q.rollbackNeeded /\ q.pre.cur # 0
        /\ q.pre.prev # q.pre.cur /\ q.pre.rec.present
        /\ q.status = 500 /\ q.msg = "PM2 process failed to start"
        /\ current[q.app] = q.pre.cur /\ q.ts \in extracted[q.app]

\* C33: a manual rollback that responds with an error (404) has changed
\* nothing: 'current' and 'previous' have the targets they had before the
\* request, also when the supervisor restart requested after the swap fails.
C33_FailedRollbackChangesNothing ==
    (last.kind = "rollback" /\ last.status = 404 /\ last.solo)
        => /\ current[last.app] = last.pre.cur
           /\ previous[last.app] = last.pre.prev

\* the targets 'current' has after n exchanges of an app that started with
\* 'current' on release 2 and 'previous' on release 1 (InitDisk)
SerialCurrent(n) == IF n % 2 = 0 THEN 2 ELSE 1

\* C34: when 'current' and 'previous' of an app name two different releases,
\* no interleaving of concurrent manual rollbacks of that app ends with both
\* symlinks naming the same release or with one of them missing: once they
\* have all answered, the symlinks are as if the successful ones (each
\* successful one restarts the process once) had run one after the other.
C34_ConcurrentRollbacksSerial ==
    \A a \in Apps :
        (IdleApp(a) /\ base[a])
            => /\ current[a] # 0 /\ previous[a] # 0
               /\ current[a] # previous[a]
               /\ current[a] = SerialCurrent(proc[a].restarts)
               /\ previous[a] = SerialCurrent(proc[a].restarts + 1)

\* the deploy q has answered and every rollback that arrived during it has too
Settled(q) == Answered(q) /\ ~q.solo /\ \A r \in InFlight : r.app = q.app => r = q

\* C35: a manual rollback of an app issued while a deploy of it is in flight
\* cannot invalidate the deploy's outcome: once both have finished, 'current'
\* names the deploy's release if the deploy answered success, and if the
\* deploy rolled back it names a release that was current before the deploy
\* repointed it (release 2, or release 1 when the rollback came first), never
\* the failed release.
C35_RollbackDuringDeploy ==
    \A q \in InFlight :
        Settled(q)
            => /\ q.status = 200 => current[q.app] = q.ts
               /\ q.rollbackNeeded => current[q.app] \in {1, 2}

\* C36: in every state where no request is in progress, an app that has a
\* registry record also has its base directory with a 'current' symlink,
\* whatever the interleaving of a destroy with an in-flight deploy of the app:
\* no record (and port) is left for an app whose files a destroy removed.
C36_RecordHasFiles ==
    reqs = EmptyBag
        => \A a \in Apps : apps[a].present => (base[a] /\ current[a] # 0)

====
